---- MODULE Spec2Model ----
(***************************************************************************)
(* Model of the sales-report date logic of the admin panel                 *)
(* (src/src/pages/SalesReport.tsx) and of the request it feeds             *)
(* (ApiService.getSalesSummary), of the banner reordering of MainLayout,   *)
(* of the redirects of the routes, and of the role and status changes of   *)
(* the Users page.                                                         *)
(*                                                                         *)
(* Strings are sequences of Unicode code points (integers); a JavaScript   *)
(* number is an integer.  All values stay far below 2^31 for the 4-digit   *)
(* years the parser lets through, so the "| 0" of div() only truncates.    *)
(***************************************************************************)
EXTENDS Integers, Sequences, FiniteSets, TLC

VARIABLES
    jdate,      \* converter harness: the (jy, jm, jd) handed to jalaliToGregorian
    gdate,      \* converter harness: the triple it returned, <<>> before the call
    input,      \* parser harness: the string handed to toGregorianISO
    parts,      \* parser harness: what parseJalaliDateString returned inside it
    iso,        \* parser harness: what toGregorianISO returned
    called,     \* parser harness: TRUE once toGregorianISO has returned
    fromJ,      \* SalesReport: text of the "from" field (useState)
    toJ,        \* SalesReport: text of the "to" field (useState)
    fromG,      \* SalesReport: useMemo(() => toGregorianISO(fromJ), [fromJ])
    toG,        \* SalesReport: useMemo(() => toGregorianISO(toJ), [toJ])
    sent,       \* the last sales-summary request: the field texts it was built
                \* from and its params
    banners,    \* MainLayout: the displayed banner ids in order (useState)
    swappingIds, \* MainLayout: the ids being swapped (useState), a list
    server,     \* the banner order the server stores
    moves,      \* the calls of moveBannerUp/moveBannerDown made so far: what
                \* each captured, where it stands, the requests it has sent
    isAuthenticated, \* auth store: isAuthenticated
    role,       \* auth store: user.role
    location,   \* router: the current path
    visited,    \* router: the paths the redirect chain has been at
    page,       \* router: the page rendered at the end of the chain, "" before
    isAdmin,    \* Users: me?.role === 'ADMIN'
    users,      \* Users: usersQuery.data, the list the handlers read
    dbUsers,    \* the users the server stores
    updatingIds, \* Users: the ids with a change under way (useState)
    patches,    \* the updateUser requests in flight
    stale,      \* Users: the ['users'] query is invalidated and not refetched
    fresh,      \* TRUE while every accepted change was made on a list equal
                \* to the server's, with no request in flight
    changes,    \* the number of changes the handlers have accepted
    lsToken,    \* localStorage: the item 'token'
    lsUser,     \* localStorage: the item 'user'
    lsExpiry,   \* localStorage: the item 'adminAccessTokenExpiry', in ms
    defaultAuth, \* ApiService: api.defaults.headers.common['Authorization']
    timers,     \* the pending timeouts of window.setTimeout: id and due time
    autoLogoutTimer, \* ApiService: autoLogoutTimer, 0 for null
    now,        \* Date.now(), in ms
    inflight,   \* the requests that left the interceptor and await a response
    lastReq,    \* the last run of the request interceptor and its outcome
    loginAt,    \* the time of the last login if it succeeded, else NoTime
    sinceLogout, \* TRUE from a logout until the next successful login
    leaving,    \* TRUE once window.location.href = '/login' is assigned, until
                \* the document is replaced
    ordersData, \* Orders: data.data of the ['orders'] query, id to status
    dbOrders,   \* the statuses of the orders on the server
    selectedOrder, \* Orders: selectedOrder (useState)
    isStatusDialogOpen, \* Orders: isStatusDialogOpen (useState)
    newStatus,  \* Orders: newStatus (useState)
    isDetailsDialogOpen, \* Orders: isDetailsDialogOpen (useState)
    detailLoads, \* the getOrderById requests in flight: their order ids
    updating,   \* the updateOrderStatus request in flight, NoUpdate if none
    lastUpdate  \* the last updateOrderStatus request sent, with the status
                \* the loaded list gave its order at that moment

vars == <<jdate, gdate, input, parts, iso, called, fromJ, toJ, fromG, toG, sent,
          banners, swappingIds, server, moves,
          isAuthenticated, role, location, visited, page,
          isAdmin, users, dbUsers, updatingIds, patches, stale, fresh, changes,
          lsToken, lsUser, lsExpiry, defaultAuth, timers, autoLogoutTimer, now,
          inflight, lastReq, loginAt, sinceLogout, leaving,
          ordersData, dbOrders, selectedOrder, isStatusDialogOpen, newStatus,
          isDetailsDialogOpen, detailLoads, updating, lastUpdate>>
convVars == <<jdate, gdate>>
parseVars == <<input, parts, iso, called>>
pageVars == <<fromJ, toJ, fromG, toG, sent>>
bannerVars == <<banners, swappingIds, server, moves>>
routeVars == <<isAuthenticated, role, location, visited, page>>
userVars == <<isAdmin, users, dbUsers, updatingIds, patches, stale, fresh, changes>>
authVars == <<lsToken, lsUser, lsExpiry, defaultAuth, timers, autoLogoutTimer,
              now, inflight, lastReq, loginAt, sinceLogout, leaving>>
orderVars == <<ordersData, dbOrders, selectedOrder, isStatusDialogOpen, newStatus,
               isDetailsDialogOpen, detailLoads, updating, lastUpdate>>

\* The values the banner, router and users variables keep while the date
\* logic runs.
BannerIdle == banners = <<>> /\ swappingIds = <<>> /\ server = <<>> /\ moves = <<>>
RouteIdle ==
    /\ isAuthenticated = FALSE /\ role = "" /\ location = "/"
    /\ visited = {} /\ page = ""
UserIdle ==
    /\ isAdmin = FALSE /\ users = <<>> /\ dbUsers = <<>> /\ updatingIds = {}
    /\ patches = {} /\ stale = FALSE /\ fresh = TRUE /\ changes = 0
AuthIdle ==
    /\ lsToken = "" /\ lsUser = "" /\ lsExpiry = 0 /\ defaultAuth = ""
    /\ timers = {} /\ autoLogoutTimer = 0 /\ now = 0 /\ inflight = 0
    /\ lastReq = <<>> /\ loginAt = 0 /\ sinceLogout = FALSE /\ leaving = FALSE
OrderIdle ==
    /\ ordersData = <<>> /\ dbOrders = <<>> /\ selectedOrder = <<>>
    /\ isStatusDialogOpen = FALSE /\ newStatus = ""
    /\ isDetailsDialogOpen = FALSE /\ detailLoads = {} /\ updating = <<>>
    /\ lastUpdate = <<>>

----------------------------------------------------------------------------
(* Bounds of the model *)

\* Jalali years the converter harness is run on.
MinYear == 950
MaxYear == 1640

----------------------------------------------------------------------------
(* JavaScript arithmetic *)

\* a / b truncated toward zero, for b > 0: (a / b) | 0.
div(a, b) == IF a >= 0 THEN a \div b ELSE -((-a) \div b)

\* JavaScript's a % b for b > 0: the remainder has the sign of a.
JsRem(a, b) == a - b * div(a, b)

----------------------------------------------------------------------------
(* jalaliToGregorian *)

\* The month loop with seven 31-day months: (i < 7) ? 31 : 30.
RECURSIVE AddMonthsSevenLong(_, _, _)
AddMonthsSevenLong(i, jm, dayNo) ==
    IF i < jm
    THEN AddMonthsSevenLong(i + 1, jm, dayNo + (IF i < 7 THEN 31 ELSE 30))
    ELSE dayNo

\* for (let i = 0; i < jm; ++i) j_day_no += (i < 6) ? 31 : 30;
RECURSIVE AddMonths(_, _, _)
AddMonths(i, jm, dayNo) ==
    IF i < jm THEN AddMonths(i + 1, jm, dayNo + (IF i < 6 THEN 31 ELSE 30))
    ELSE dayNo

gdMonthDays(leap) ==
    <<31, IF leap THEN 29 ELSE 28, 31, 30, 31, 30, 31, 31, 30, 31, 30, 31>>

\* The month walk with ">" for ">=": a month keeps one day too many.
RECURSIVE WalkMonthsStrict(_, _, _)
WalkMonthsStrict(gm, dayNo, md) ==
    IF gm < 12 /\ dayNo > md[gm + 1]
    THEN WalkMonthsStrict(gm + 1, dayNo - md[gm + 1], md)
    ELSE <<gm, dayNo>>

\* while (gm < 12 && g_day_no >= gdMonthDays[gm]) { g_day_no -= ...; gm++ }
\* gm is the 0-based index of the code; the result is <<gm, g_day_no>>.
RECURSIVE WalkMonths(_, _, _)
WalkMonths(gm, dayNo, md) ==
    IF gm < 12 /\ dayNo >= md[gm + 1]
    THEN WalkMonths(gm + 1, dayNo - md[gm + 1], md)
    ELSE <<gm, dayNo>>

\* The threshold of the century branch set a leap year late: the branch is
\* skipped for the whole first year of the second century.
CenturyThresholdLate == 36525 + 366

\* The threshold of the century branch with the length of a century, 36524,
\* in the place of 36525.
CenturyThresholdOneLess == 36525 - 1

\* The threshold of the century branch: if (g_day_no >= 36525).
CenturyThreshold == 36525

\* The condition of the century branch.
CenturyBranchTaken(st) == st.g >= CenturyThreshold

\* The century branch; state is [gy, g, leap].
CenturyStep(st) ==
    IF CenturyBranchTaken(st)
    THEN LET g1 == st.g - 1
             gy1 == st.gy + 100 * div(g1, 36524)
             g2 == JsRem(g1, 36524)
         IN  IF g2 >= 365
             THEN [gy |-> gy1, g |-> g2 + 1, leap |-> st.leap]
             ELSE [gy |-> gy1, g |-> g2, leap |-> FALSE]
    ELSE st

\* gy += 4 * div(g_day_no, 1461); g_day_no %= 1461;
FourYearStep(st) ==
    [gy |-> st.gy + 4 * div(st.g, 1461), g |-> JsRem(st.g, 1461), leap |-> st.leap]

\* if (g_day_no >= 366) { leap = false; g_day_no--; gy += div(..., 365); ... }
YearStep(st) ==
    IF st.g >= 366
    THEN LET g1 == st.g - 1
         IN  [gy |-> st.gy + div(g1, 365), g |-> JsRem(g1, 365), leap |-> FALSE]
    ELSE st

\* GDayNo with the day left 1-based (the "jd = jd - 1" of line 18 dropped).
GDayNoOneBased(jy0, jm0, jd0) ==
    LET jy == jy0 - 979
        jm == jm0 - 1
        j0 == 365 * jy + div(jy, 33) * 8 + div(JsRem(jy, 33) + 3, 4)
        j1 == AddMonths(0, jm, j0)
    IN  j1 + jd0 + 79

\* GDayNo with the leap days of a 33-year cycle counted from the wrong
\* year: div(jy % 33, 4) for div(jy % 33 + 3, 4).
GDayNoLeapShifted(jy0, jm0, jd0) ==
    LET jy == jy0 - 979
        jm == jm0 - 1
        jd == jd0 - 1
        j0 == 365 * jy + div(jy, 33) * 8 + div(JsRem(jy, 33), 4)
        j1 == AddMonths(0, jm, j0)
    IN  j1 + jd + 79

\* The days from the converter's epoch to the Jalali date, plus the offset 79.
GDayNo(jy0, jm0, jd0) ==
    LET jy == jy0 - 979
        jm == jm0 - 1
        jd == jd0 - 1
        j0 == 365 * jy + div(jy, 33) * 8 + div(JsRem(jy, 33) + 3, 4)
        j1 == AddMonths(0, jm, j0)
    IN  j1 + jd + 79

\* gy = 1600 + 400 * div(g_day_no, 146097); g_day_no %= 146097; leap = true:
\* the state the century branch is entered with.
CenturyInput(jy, jm, jd) ==
    LET g0 == GDayNo(jy, jm, jd)
    IN  [gy |-> 1600 + 400 * div(g0, 146097),
         g |-> JsRem(g0, 146097), leap |-> TRUE]

jalaliToGregorian(jy, jm, jd) ==
    LET st0 == CenturyInput(jy, jm, jd)
        st3 == YearStep(FourYearStep(CenturyStep(st0)))
        w == WalkMonths(0, st3.g, gdMonthDays(st3.leap))
    IN  <<st3.gy, w[1] + 1, w[2] + 1>>

----------------------------------------------------------------------------
(* JavaScript strings: a string is the sequence of its code points.        *)
(* '0'..'9' are 48..57, '/' is 47, '-' is 45, U+06F0..U+06F9 are           *)
(* 1776..1785.                                                             *)

\* What String.prototype.trim removes: WhiteSpace and LineTerminator.
WhiteSpaceChars ==
    (9..13) \cup {32, 160, 5760} \cup (8192..8202)
        \cup {8232, 8233, 8239, 8287, 12288, 65279}

IsWhiteSpace(c) == c \in WhiteSpaceChars

RECURSIVE TrimStart(_)
TrimStart(s) ==
    IF s # <<>> /\ IsWhiteSpace(Head(s)) THEN TrimStart(Tail(s)) ELSE s

RECURSIVE TrimEnd(_)
TrimEnd(s) ==
    IF s # <<>> /\ IsWhiteSpace(s[Len(s)])
    THEN TrimEnd(SubSeq(s, 1, Len(s) - 1)) ELSE s

Trim(s) == TrimEnd(TrimStart(s))

\* String(n) for an integer n, also used by the template literal.
RECURSIVE NumToString(_)
NumToString(n) ==
    IF n < 0 THEN <<45>> \o NumToString(-n)
    ELSE IF n < 10 THEN <<48 + n>>
    ELSE NumToString(n \div 10) \o <<48 + (n % 10)>>

\* str.padStart(len, fill) for a one-character fill.
RECURSIVE PadStart(_, _, _)
PadStart(str, len, fill) ==
    IF Len(str) >= len THEN str ELSE PadStart(<<fill>> \o str, len, fill)

\* str.indexOf(c) for one character c: 0-based, -1 when absent.
IndexOf(str, c) ==
    IF \E i \in 1..Len(str) : str[i] = c
    THEN (CHOOSE i \in 1..Len(str) :
              str[i] = c /\ \A k \in 1..(i - 1) : str[k] # c) - 1
    ELSE -1

\* The literal of line 59: the ten Persian digits in order.
PersianDigits == <<1776, 1777, 1778, 1779, 1780, 1781, 1782, 1783, 1784, 1785>>

\* The character class [۰-۹].
IsPersianDigit(c) == c >= 1776 /\ c <= 1785

\* The replace of line 59 without its g flag: only the first match is replaced.
RECURSIVE ReplaceFirstPersianDigit(_)
ReplaceFirstPersianDigit(s) ==
    IF s = <<>> THEN <<>>
    ELSE IF IsPersianDigit(Head(s))
         THEN NumToString(IndexOf(PersianDigits, Head(s))) \o Tail(s)
         ELSE <<Head(s)>> \o ReplaceFirstPersianDigit(Tail(s))

\* s.replace(/[۰-۹]/g, (d) => String('...'.indexOf(d)))
RECURSIVE ReplacePersianDigits(_)
ReplacePersianDigits(s) ==
    IF s = <<>> THEN <<>>
    ELSE (IF IsPersianDigit(Head(s))
          THEN NumToString(IndexOf(PersianDigits, Head(s)))
          ELSE <<Head(s)>>) \o ReplacePersianDigits(Tail(s))

\* \d of a RegExp without the u flag, and (?:/|-).
IsDigit(c) == c >= 48 /\ c <= 57
IsSep(c) == c = 47 \/ c = 45

AllDigits(t, a, b) == b <= Len(t) /\ \A i \in a..b : IsDigit(t[i])

\* (\d{4})(?:/|-)(\d{k2})(?:/|-)(\d{k3}) matches t from its start.
FieldsMatch(t, k2, k3) ==
    /\ AllDigits(t, 1, 4)
    /\ Len(t) >= 5 /\ IsSep(t[5])
    /\ AllDigits(t, 6, 5 + k2)
    /\ Len(t) >= 6 + k2 /\ IsSep(t[6 + k2])
    /\ AllDigits(t, 7 + k2, 6 + k2 + k3)

\* ... and the $ after it matches: the string ends there.
MatchWith(t, k2, k3) == FieldsMatch(t, k2, k3) /\ Len(t) = 6 + k2 + k3

Groups(t, k2, k3) ==
    <<SubSeq(t, 1, 4), SubSeq(t, 6, 5 + k2), SubSeq(t, 7 + k2, 6 + k2 + k3)>>

\* The pattern without its $: a prefix of the string may match.
RegexMatchUnanchored(t) ==
    IF FieldsMatch(t, 2, 2) THEN Groups(t, 2, 2)
    ELSE IF FieldsMatch(t, 2, 1) THEN Groups(t, 2, 1)
    ELSE IF FieldsMatch(t, 1, 2) THEN Groups(t, 1, 2)
    ELSE IF FieldsMatch(t, 1, 1) THEN Groups(t, 1, 1)
    ELSE <<>>

\* The pattern with its second separator a back-reference to the first.
RegexMatchSameSep(t) ==
    IF MatchWith(t, 2, 2) /\ t[5] = t[8] THEN Groups(t, 2, 2)
    ELSE IF MatchWith(t, 2, 1) /\ t[5] = t[8] THEN Groups(t, 2, 1)
    ELSE IF MatchWith(t, 1, 2) /\ t[5] = t[7] THEN Groups(t, 1, 2)
    ELSE IF MatchWith(t, 1, 1) /\ t[5] = t[7] THEN Groups(t, 1, 1)
    ELSE <<>>

\* normalized.match(new RegExp('^(\\d{4})(?:/|-)(\\d{1,2})(?:/|-)(\\d{1,2})$'))
\* in the order the engine tries it (each \d{1,2} is greedy: two digits, then
\* one): the three groups, or <<>> for null.
RegexMatch(t) ==
    IF MatchWith(t, 2, 2) THEN Groups(t, 2, 2)
    ELSE IF MatchWith(t, 2, 1) THEN Groups(t, 2, 1)
    ELSE IF MatchWith(t, 1, 2) THEN Groups(t, 1, 2)
    ELSE IF MatchWith(t, 1, 1) THEN Groups(t, 1, 1)
    ELSE <<>>

\* parseInt(str, 10) of a string of digits.
RECURSIVE ParseInt(_)
ParseInt(str) ==
    IF str = <<>> THEN 0
    ELSE 10 * ParseInt(SubSeq(str, 1, Len(str) - 1)) + (str[Len(str)] - 48)

Null == <<>>

parseJalaliDateString(s) ==
    LET normalized == Trim(ReplacePersianDigits(s))
        m == RegexMatch(normalized)
    IN  IF m = <<>> THEN Null
        ELSE LET jy == ParseInt(m[1])
                 jm == ParseInt(m[2])
                 jd == ParseInt(m[3])
             IN  IF jm < 1 \/ jm > 12 \/ jd < 1 \/ jd > 31 THEN Null
                 ELSE <<jy, jm, jd>>

\* undefined: a value that is no string.
Undefined == <<-1>>

\* toGregorianISO without the two padStart calls.
toGregorianISONoPad(s) ==
    LET p == parseJalaliDateString(s)
    IN  IF p = Null THEN Undefined
        ELSE LET g == jalaliToGregorian(p[1], p[2], p[3])
             IN  NumToString(g[1]) \o <<45>> \o NumToString(g[2])
                     \o <<45>> \o NumToString(g[3])

toGregorianISO(s) ==
    LET p == parseJalaliDateString(s)
    IN  IF p = Null THEN Undefined
        ELSE LET g == jalaliToGregorian(p[1], p[2], p[3])
                 mm == PadStart(NumToString(g[2]), 2, 48)
                 dd == PadStart(NumToString(g[3]), 2, 48)
             IN  NumToString(g[1]) \o <<45>> \o mm \o <<45>> \o dd

----------------------------------------------------------------------------
(* Converter harness: one call of jalaliToGregorian on any triple the      *)
(* parser can return for a year of MinYear..MaxYear.  The years span the   *)
(* converter's epoch 979, the years the specification names (1400, 1403)   *)
(* and both ends of the years on which it agrees with jalaali-js.          *)

JalaliInputs == (MinYear..MaxYear) \X (1..12) \X (1..31)

ConvIdle == /\ input = <<>> /\ parts = Null /\ iso = Undefined /\ called = FALSE
            /\ fromJ = <<>> /\ toJ = <<>> /\ sent = <<>>
            /\ fromG = Undefined /\ toG = Undefined
            /\ BannerIdle /\ RouteIdle /\ UserIdle /\ AuthIdle /\ OrderIdle

InitConv == /\ jdate \in JalaliInputs
            /\ gdate = <<>>
            /\ ConvIdle

Convert == /\ gdate = <<>>
           /\ gdate' = jalaliToGregorian(jdate[1], jdate[2], jdate[3])
           /\ UNCHANGED <<jdate, parseVars, pageVars, bannerVars, routeVars, userVars,
                        authVars, orderVars>>

NextConv == Convert

SpecConv == InitConv /\ [][NextConv]_vars

----------------------------------------------------------------------------
(* The Gregorian calendar, as the specification states it (section 3).    *)

IsGregorianLeap(y) == y % 4 = 0 /\ (y % 100 # 0 \/ y % 400 = 0)

GregorianMonthLength(y, m) ==
    IF m = 2 THEN (IF IsGregorianLeap(y) THEN 29 ELSE 28)
    ELSE IF m \in {4, 6, 9, 11} THEN 30 ELSE 31

IsValidGregorian(g) ==
    /\ g[2] \in 1..12
    /\ g[3] >= 1
    /\ g[3] <= GregorianMonthLength(g[1], g[2])

Converted == gdate # <<>>

\* C1: for every JalaliDate (year >= 1, month in 1..12, day in 1..31) the
\* triple jalaliToGregorian returns is a valid Gregorian calendar date: month
\* in 1..12 and day in 1..length of that month, February having 29 days
\* exactly in the Gregorian leap years.
C1_OutputIsValidGregorian ==
    (Converted /\ jdate[1] >= 1) => IsValidGregorian(gdate)

\* C2: jalaliToGregorian maps Jalali 1403-01-01 to 2024-03-20, 1400-01-01 to
\* 2021-03-21 and 1403-12-29 to 2025-03-19.
C2_ReferencePairs ==
    Converted =>
        /\ (jdate = <<1403, 1, 1>> => gdate = <<2024, 3, 20>>)
        /\ (jdate = <<1400, 1, 1>> => gdate = <<2021, 3, 21>>)
        /\ (jdate = <<1403, 12, 29>> => gdate = <<2025, 3, 19>>)

C2_Witness == Converted /\ jdate = <<1403, 12, 29>>

----------------------------------------------------------------------------
(* The jalaali-js conversion (jalCal, j2d, g2d, d2g, toGregorian), the     *)
(* library the converter's comment names.  It is the other side of C3, not *)
(* code of this repository.                                                *)

JalaaliBreaks ==
    <<-61, 9, 38, 199, 426, 686, 756, 818, 1111, 1181, 1210,
      1635, 2060, 2097, 2192, 2262, 2324, 2394, 2456, 3178>>

\* The loop of jalCal over the breaks: [jp, jump, leapJ] when it leaves.
RECURSIVE JalCalLoop(_, _, _, _)
JalCalLoop(jy, i, jp, leapJ) ==
    LET jm == JalaaliBreaks[i]
        jump == jm - jp
    IN  IF jy < jm \/ i = Len(JalaaliBreaks)
        THEN [jp |-> jp, jump |-> jump, leapJ |-> leapJ]
        ELSE JalCalLoop(jy, i + 1, jm,
                        leapJ + div(jump, 33) * 8 + div(JsRem(jump, 33), 4))

\* jalCal(jy): [leap, gy, march]; leap = 0 in a Jalaali leap year.
JalCal(jy) ==
    LET gy == jy + 621
        lp == JalCalLoop(jy, 2, JalaaliBreaks[1], -14)
        n0 == jy - lp.jp
        leapJ0 == lp.leapJ + div(n0, 33) * 8 + div(JsRem(n0, 33) + 3, 4)
        leapJ == IF JsRem(lp.jump, 33) = 4 /\ lp.jump - n0 = 4
                 THEN leapJ0 + 1 ELSE leapJ0
        leapG == div(gy, 4) - div((div(gy, 100) + 1) * 3, 4) - 150
        n == IF lp.jump - n0 < 6
             THEN n0 - lp.jump + div(lp.jump + 4, 33) * 33 ELSE n0
        leap0 == JsRem(JsRem(n + 1, 33) - 1, 4)
    IN  [leap |-> IF leap0 = -1 THEN 4 ELSE leap0,
         gy |-> gy, march |-> 20 + leapJ - leapG]

JalaaliG2d(gy, gm, gd) ==
    LET d == div((gy + div(gm - 8, 6) + 100100) * 1461, 4)
             + div(153 * JsRem(gm + 9, 12) + 2, 5) + gd - 34840408
    IN  d - div(div(gy + 100100 + div(gm - 8, 6), 100) * 3, 4) + 752

JalaaliJ2d(jy, jm, jd) ==
    LET r == JalCal(jy)
    IN  JalaaliG2d(r.gy, 3, r.march) + (jm - 1) * 31 - div(jm, 7) * (jm - 7) + jd - 1

JalaaliD2g(jdn) ==
    LET j0 == 4 * jdn + 139361631
        j == j0 + div(div(4 * jdn + 183187720, 146097) * 3, 4) * 4 - 3908
        i == div(JsRem(j, 1461), 4) * 5 + 308
        gd == div(JsRem(i, 153), 5) + 1
        gm == JsRem(div(i, 153), 12) + 1
        gy == div(j, 1461) - 100100 + div(8 - gm, 6)
    IN  <<gy, gm, gd>>

JalaaliToGregorian(j) == JalaaliD2g(JalaaliJ2d(j[1], j[2], j[3]))

\* jalaaliMonthLength and isValidJalaaliDate.
JalaaliMonthLength(jy, jm) ==
    IF jm <= 6 THEN 31
    ELSE IF jm <= 11 THEN 30
    ELSE IF JalCal(jy).leap = 0 THEN 30 ELSE 29

IsValidJalaaliDate(j) ==
    /\ j[1] >= -61 /\ j[1] <= 3177
    /\ j[2] \in 1..12
    /\ j[3] >= 1 /\ j[3] <= JalaaliMonthLength(j[1], j[2])

\* C3: for every date that is valid in the Jalali calendar, jalaliToGregorian
\* returns the Gregorian (year, month, day) that the jalaali-js conversion
\* returns.
C3_AgreesWithJalaali ==
    (Converted /\ IsValidJalaaliDate(jdate)) => gdate = JalaaliToGregorian(jdate)

----------------------------------------------------------------------------
(* Succession of days: the Gregorian day after a Gregorian day, and the    *)
(* claims that consecutive Jalali dates convert to consecutive days.       *)

NextGregorianDay(g) ==
    IF g[3] < GregorianMonthLength(g[1], g[2]) THEN <<g[1], g[2], g[3] + 1>>
    ELSE IF g[2] < 12 THEN <<g[1], g[2] + 1, 1>>
    ELSE <<g[1] + 1, 1, 1>>

\* C11: for every Jalali year y >= 979, month m in 1..12 and day d in 1..30,
\* jalaliToGregorian(y, m, d + 1) is the Gregorian day immediately following
\* jalaliToGregorian(y, m, d); in particular 1403-12-30 converts to the day
\* after the conversion of 1403-12-29.
C11_NextDayInMonth ==
    (Converted /\ jdate[1] >= 979 /\ jdate[3] >= 2) =>
        /\ gdate = NextGregorianDay(
                       jalaliToGregorian(jdate[1], jdate[2], jdate[3] - 1))
        /\ (jdate = <<1403, 12, 30>> =>
                gdate = NextGregorianDay(jalaliToGregorian(1403, 12, 29)))

C11_Witness == Converted /\ jdate = <<1403, 12, 30>> /\ gdate = <<2025, 3, 20>>

\* The length the converter's month loop gives Jalali month m of 1..11.
LoopMonthLength(m) == IF m <= 6 THEN 31 ELSE 30

\* C12: for every Jalali year y >= 979, jalaliToGregorian(y, m + 1, 1) is the
\* Gregorian day immediately following jalaliToGregorian(y, m, 31) for m in
\* 1..6 and jalaliToGregorian(y, m, 30) for m in 7..11.
C12_NextDayAcrossMonths ==
    (Converted /\ jdate[1] >= 979 /\ jdate[2] >= 2 /\ jdate[3] = 1) =>
        gdate = NextGregorianDay(
                    jalaliToGregorian(jdate[1], jdate[2] - 1,
                                      LoopMonthLength(jdate[2] - 1)))

C12_Witness ==
    /\ Converted /\ jdate = <<1403, 7, 1>>
    /\ gdate = NextGregorianDay(jalaliToGregorian(1403, 6, 31))

\* The years the converter gives 366 days, as C13 states them.
IsLongYear(y) == (y - 979) % 33 \in {0, 4, 8, 12, 16, 20, 24, 28}

\* C13: for every Jalali year y >= 979, jalaliToGregorian(y + 1, 1, 1) is the
\* Gregorian day immediately following jalaliToGregorian(y, 12, 30) when
\* (y - 979) mod 33 is one of 0, 4, 8, 12, 16, 20, 24, 28 (1403 is one), and
\* the day following jalaliToGregorian(y, 12, 29) for every other year.
C13_NextDayAcrossYears ==
    (Converted /\ jdate[1] >= 980 /\ jdate[2] = 1 /\ jdate[3] = 1) =>
        LET y == jdate[1] - 1
        IN  gdate = NextGregorianDay(
                        jalaliToGregorian(y, 12,
                                          IF IsLongYear(y) THEN 30 ELSE 29))

C13_Witness ==
    /\ Converted /\ jdate = <<1404, 1, 1>> /\ IsLongYear(1403)
    /\ gdate = NextGregorianDay(jalaliToGregorian(1403, 12, 30))

\* The day count that remains after the 400-year reduction.
RemainingAfter400(j) == CenturyInput(j[1], j[2], j[3]).g

\* C14 as stated: the century-leap correction is applied exactly when the
\* day count remaining after the 400-year reduction is at least 36524.
C14_AppliedFrom36524 ==
    Converted =>
        (CenturyBranchTaken(CenturyInput(jdate[1], jdate[2], jdate[3]))
            <=> RemainingAfter400(jdate) >= 36524)

\* C14: the century-leap correction is applied exactly when the day count
\* remaining after the 400-year reduction is at least 36525; with 36524 days
\* remaining (the last day of the first century) it is not applied.
C14_AppliedFrom36525 ==
    Converted =>
        LET st == CenturyInput(jdate[1], jdate[2], jdate[3])
        IN  /\ CenturyBranchTaken(st) <=> RemainingAfter400(jdate) >= 36525
            /\ RemainingAfter400(jdate) <= 36524 => CenturyStep(st) = st
            /\ RemainingAfter400(jdate) >= 36525 => CenturyStep(st) # st

C14_Witness ==
    /\ Converted /\ RemainingAfter400(jdate) = 36524
    /\ ~CenturyBranchTaken(CenturyInput(jdate[1], jdate[2], jdate[3]))
    /\ gdate = <<1699, 12, 31>>

\* The century branch guarded as the specification describes it, by a
\* remaining day count of at least 36524.
CenturyStepAsSpecified(st) ==
    IF st.g >= 36524
    THEN LET g1 == st.g - 1
             gy1 == st.gy + 100 * div(g1, 36524)
             g2 == JsRem(g1, 36524)
         IN  IF g2 >= 365
             THEN [gy |-> gy1, g |-> g2 + 1, leap |-> st.leap]
             ELSE [gy |-> gy1, g |-> g2, leap |-> FALSE]
    ELSE st

\* The converter with that guard and every other step as coded.
jalaliToGregorianAsSpecified(jy, jm, jd) ==
    LET st3 == YearStep(FourYearStep(
                   CenturyStepAsSpecified(CenturyInput(jy, jm, jd))))
        w == WalkMonths(0, st3.g, gdMonthDays(st3.leap))
    IN  <<st3.gy, w[1] + 1, w[2] + 1>>

\* C29: for every input the parser accepts, jalaliToGregorian returns the same
\* (year, month, day) whether its century branch is guarded by a day count of
\* at least 36525, as coded, or of at least 36524, as the specification says.
C29_SameDateWithEitherGuard ==
    Converted =>
        gdate = jalaliToGregorianAsSpecified(jdate[1], jdate[2], jdate[3])

C29_Witness ==
    /\ Converted /\ jdate = <<1478, 10, 11>>
    /\ RemainingAfter400(jdate) = 36524
    /\ CenturyStepAsSpecified(CenturyInput(1478, 10, 11))
           = CenturyInput(1478, 10, 11)
    /\ gdate = <<2099, 12, 31>>

----------------------------------------------------------------------------
(* Parser harness: one call of toGregorianISO on a typed string.           *)

\* The month and day fields of the typed strings run from 0 to these.
MaxMonthText == 13
MaxDayText == 32

\* The years of the typed strings.
TypedYears == {0, 1403, 9999}

\* v in decimal, zero-padded to w characters.
Dec(v, w) == PadStart(NumToString(v), w, 48)

\* A field value as typed: without padding, or padded to two digits.
FieldTexts(max) == {Dec(v, 1) : v \in 0..max} \cup {Dec(v, 2) : v \in 0..max}

DateTexts ==
    {Dec(y, 4) \o <<s1>> \o m \o <<s2>> \o d :
        y \in TypedYears, s1 \in {47, 45}, m \in FieldTexts(MaxMonthText),
        s2 \in {47, 45}, d \in FieldTexts(MaxDayText)}

\* Texts that are no date:
\*   ""
\*   "garbage"
\*   "not-a-date"
\*   "1403/01"
\*   "14030101"
\*   "1403//01"
\*   "140/01/01"
\*   "14033/01/01"
\*   "1403/001/01"
\*   "1403/01/001"
\*   "1403.01.01"
\*   "1403 /01/01"
\*   "1403/01/ 01"
\*   "\u0661\u0664\u0660\u0663/\u0660\u0661/\u0660\u0661"
\*   "1403/01/01\u200c"
\*   "-1403/1/1"
OtherTexts ==
    {
      <<>>,
      <<103, 97, 114, 98, 97, 103, 101>>,
      <<110, 111, 116, 45, 97, 45, 100, 97, 116, 101>>,
      <<49, 52, 48, 51, 47, 48, 49>>,
      <<49, 52, 48, 51, 48, 49, 48, 49>>,
      <<49, 52, 48, 51, 47, 47, 48, 49>>,
      <<49, 52, 48, 47, 48, 49, 47, 48, 49>>,
      <<49, 52, 48, 51, 51, 47, 48, 49, 47, 48, 49>>,
      <<49, 52, 48, 51, 47, 48, 48, 49, 47, 48, 49>>,
      <<49, 52, 48, 51, 47, 48, 49, 47, 48, 48, 49>>,
      <<49, 52, 48, 51, 46, 48, 49, 46, 48, 49>>,
      <<49, 52, 48, 51, 32, 47, 48, 49, 47, 48, 49>>,
      <<49, 52, 48, 51, 47, 48, 49, 47, 32, 48, 49>>,
      <<1633, 1636, 1632, 1635, 47, 1632, 1633, 47, 1632, 1633>>,
      <<49, 52, 48, 51, 47, 48, 49, 47, 48, 49, 8204>>,
      <<45, 49, 52, 48, 51, 47, 49, 47, 49>>
    }

\* The digits of a text typed with a Persian keyboard: all of them (1), or
\* every other character (2).
InScript(t, mode) ==
    [i \in 1..Len(t) |->
        IF IsDigit(t[i]) /\ (mode = 1 \/ (mode = 2 /\ i % 2 = 1))
        THEN t[i] + 1728 ELSE t[i]]

\* A text as is (0), between white space (1), after a letter (2), before a
\* letter (3).
Wrapped(t, w) ==
    CASE w = 0 -> t
      [] w = 1 -> <<32>> \o t \o <<9, 32>>
      [] w = 2 -> <<120>> \o t
      [] w = 3 -> t \o <<120>>

\* The script and wrapping pairs the typed texts come in.
Typings == ({0} \X (0..3)) \cup ({1} \X (0..1)) \cup {<<2, 0>>}

TypedTexts ==
    {Wrapped(InScript(t, ty[1]), ty[2]) :
        t \in DateTexts \cup OtherTexts, ty \in Typings}

ParseIdle == /\ jdate = <<MinYear, 1, 1>> /\ gdate = <<>>
             /\ fromJ = <<>> /\ toJ = <<>> /\ sent = <<>>
             /\ fromG = Undefined /\ toG = Undefined
             /\ BannerIdle /\ RouteIdle /\ UserIdle /\ AuthIdle /\ OrderIdle

InitParse == /\ input \in TypedTexts
             /\ parts = Null
             /\ iso = Undefined
             /\ called = FALSE
             /\ ParseIdle

\* const parts = parseJalaliDateString(s); ...; return ...
CallToGregorianISO ==
    /\ ~called
    /\ parts' = parseJalaliDateString(input)
    /\ iso' = toGregorianISO(input)
    /\ called' = TRUE
    /\ UNCHANGED <<input, convVars, authVars, orderVars, pageVars, bannerVars, routeVars, userVars>>

NextParse == CallToGregorianISO

SpecParse == InitParse /\ [][NextParse]_vars

----------------------------------------------------------------------------
(* The parser's contract as the specification states it (section 4.2).     *)

\* Each Persian digit replaced by its Latin digit.
ToLatin(s) ==
    [i \in 1..Len(s) |-> IF s[i] \in 1776..1785 THEN s[i] - 1728 ELSE s[i]]

\* s without its leading and trailing white space.
Core(s) ==
    LET solid == {i \in 1..Len(s) : s[i] \notin WhiteSpaceChars}
    IN  IF solid = {} THEN <<>>
        ELSE SubSeq(s, CHOOSE i \in solid : \A k \in solid : i <= k,
                       CHOOSE i \in solid : \A k \in solid : i >= k)

\* t is, in full: 4 digits, a separator, a digits, a separator, b digits.
IsDateText(t, a, b) ==
    /\ Len(t) = 6 + a + b
    /\ \A i \in 1..Len(t) :
          IF i \in {5, 6 + a} THEN t[i] \in {47, 45} ELSE t[i] \in 48..57

MatchesInFull(t) == \E a \in 1..2, b \in 1..2 : IsDateText(t, a, b)

RECURSIVE Pow10(_)
Pow10(n) == IF n = 0 THEN 1 ELSE 10 * Pow10(n - 1)

\* The number written by the digits t[lo..hi].
RECURSIVE ValueOf(_, _, _)
ValueOf(t, lo, hi) ==
    IF lo > hi THEN 0
    ELSE (t[lo] - 48) * Pow10(hi - lo) + ValueOf(t, lo + 1, hi)

\* The three integers of a text that matches in full.
FieldsOf(t) ==
    LET a == CHOOSE a \in 1..2 : \E b \in 1..2 : IsDateText(t, a, b)
    IN  <<ValueOf(t, 1, 4), ValueOf(t, 6, 5 + a), ValueOf(t, 7 + a, Len(t))>>

\* C4: parseJalaliDateString(s) returns null exactly when s, after digit
\* normalization and trimming, does not match the pattern in full or the
\* parsed month is outside 1..12 or the parsed day outside 1..31; in every
\* other case it returns the triple of the three parsed integers.
C4_NullExactlyWhenMalformed ==
    called =>
        LET t == Core(ToLatin(input))
            bad == \/ ~MatchesInFull(t)
                   \/ FieldsOf(t)[2] \notin 1..12
                   \/ FieldsOf(t)[3] \notin 1..31
        IN  /\ (parts = Null) <=> bad
            /\ ~bad => parts = FieldsOf(t)

\* A text between white space, with Persian digits, that matches the pattern
\* and is rejected for its month or day.
C4_Witness ==
    /\ called /\ parts = Null
    /\ input # Core(input)
    /\ input # ToLatin(input)
    /\ MatchesInFull(Core(ToLatin(input)))

\* n in decimal, with a leading 0 when it is a single digit.
TwoDigits(n) == IF n \in 0..9 THEN <<48, 48 + n>> ELSE NumToString(n)

\* C5: toGregorianISO(s) is undefined if and only if parseJalaliDateString(s)
\* is null; otherwise it is the year, the month zero-padded to 2 digits and
\* the day zero-padded to 2 digits of jalaliToGregorian applied to the parsed
\* triple, joined by '-'.
C5_IsoIsFormatOfConvertOfParse ==
    called =>
        /\ (iso = Undefined) <=> (parts = Null)
        /\ parts # Null =>
              LET g == jalaliToGregorian(parts[1], parts[2], parts[3])
              IN  iso = NumToString(g[1]) \o <<45>> \o TwoDigits(g[2])
                            \o <<45>> \o TwoDigits(g[3])

\* 1403/01/01 gives "2024-03-20": the month is padded.
C5_Witness ==
    /\ called /\ parts = <<1403, 1, 1>>
    /\ iso = <<50, 48, 50, 52, 45, 48, 51, 45, 50, 48>>

\* YYYY-MM-DD: four digits, '-', two digits, '-', two digits.
IsIsoDateShape(str) ==
    /\ Len(str) = 10
    /\ \A i \in 1..10 : IF i \in {5, 8} THEN str[i] = 45 ELSE str[i] \in 48..57

\* C7: for every input string that parseJalaliDateString accepts,
\* toGregorianISO returns a string of the form YYYY-MM-DD.
C7_IsoHasDateShape ==
    (called /\ parts # Null) => IsIsoDateShape(iso)

\* C8: parseJalaliDateString(s) equals parseJalaliDateString(s') where s' is
\* s with each Persian digit replaced by the corresponding Latin digit,
\* including strings that mix both scripts.
C8_PersianDigitsParseAsLatin ==
    called => parts = parseJalaliDateString(ToLatin(input))

\* An accepted text that mixes Persian and Latin digits.
C8_Witness ==
    /\ called /\ parts # Null
    /\ \E i, k \in 1..Len(input) : input[i] \in 1776..1785 /\ input[k] \in 48..57

\* The places of the separator characters of s, and s with the one at i
\* replaced by the other separator character.
SeparatorsOf(s) == {i \in 1..Len(s) : s[i] \in {47, 45}}
OtherSeparatorAt(s, i) == [s EXCEPT ![i] = IF s[i] = 47 THEN 45 ELSE 47]

\* C9: for every accepted date string, replacing either of its two
\* separators by the other separator character leaves the result of
\* parseJalaliDateString unchanged.
C9_SeparatorsInterchangeable ==
    (called /\ parts # Null) =>
        /\ Cardinality(SeparatorsOf(input)) = 2
        /\ \A i \in SeparatorsOf(input) :
              parseJalaliDateString(OtherSeparatorAt(input, i)) = parts

\* An accepted text whose two separators differ, such as 1403/01-01.
C9_Witness ==
    /\ called /\ parts # Null
    /\ \E i, k \in SeparatorsOf(input) : input[i] # input[k]

\* C10: every non-null result of parseJalaliDateString is a JalaliDate of the
\* data model: year >= 1, month in 1..12 and day in 1..31.
C10_ResultIsJalaliDate ==
    (called /\ parts # Null) =>
        parts[1] >= 1 /\ parts[2] \in 1..12 /\ parts[3] \in 1..31

\* The text "yyyy/mm/dd" of a Jalali triple.
TextOf(y, m, d) == Dec(y, 4) \o <<47>> \o Dec(m, 2) \o <<47>> \o Dec(d, 2)

\* C30: for every year and every month m in 7..11, jalaliToGregorian(y, m, 31)
\* equals jalaliToGregorian(y, m + 1, 1); the parser accepts day 31 in those
\* months, so two different accepted inputs yield the same ISO date.
C30_Day31IsNextMonthsFirst ==
    (called /\ parts # Null /\ parts[2] \in 7..11 /\ parts[3] = 31) =>
        LET y == parts[1]
            m == parts[2]
        IN  /\ jalaliToGregorian(y, m, 31) = jalaliToGregorian(y, m + 1, 1)
            /\ parseJalaliDateString(TextOf(y, m + 1, 1)) = <<y, m + 1, 1>>
            /\ Core(input) # TextOf(y, m + 1, 1)
            /\ iso = toGregorianISO(TextOf(y, m + 1, 1))

C30_Witness ==
    /\ called /\ parts = <<1403, 7, 31>>
    /\ iso = toGregorianISO(TextOf(1403, 8, 1))
    /\ iso # Undefined

----------------------------------------------------------------------------
(* The SalesReport page and ApiService.getSalesSummary.                    *)

\* A JavaScript value that is neither undefined nor the empty string.
Truthy(v) == v # Undefined /\ v # <<>>

\* v || undefined
OrUndefined(v) == IF Truthy(v) THEN v ELSE Undefined

\* getSalesSummary with both keys always set: params.from = from ?? ''.
getSalesSummaryParamsAlways(from, to) ==
    [k \in {"from", "to"} |->
        LET v == IF k = "from" THEN from ELSE to
        IN  IF v = Undefined THEN <<>> ELSE v]

\* The params object getSalesSummary(from, to) hands to api.get:
\*   const params = {}; if (from) params.from = from; if (to) params.to = to;
getSalesSummaryParams(from, to) ==
    [k \in {k \in {"from", "to"} : Truthy(IF k = "from" THEN from ELSE to)} |->
        IF k = "from" THEN from ELSE to]

\* queryKey: ['sales-summary', fromG, toG]
QueryKey(fg, tg) == <<fg, tg>>

\* queryFn run in a render whose fields hold f and t and whose memoized dates
\* are fg and tg: apiService.getSalesSummary(fromG || undefined, toG || undefined)
QueryFn(f, t, fg, tg) ==
    [fromText |-> f, toText |-> t,
     params |-> getSalesSummaryParams(OrUndefined(fg), OrUndefined(tg))]

\* What is typed into the two fields:
\*   "", "garbage", "1403/01/01", "1403/12/29" in Persian digits,
\*   " 1403-1-1 ", "2024/13/01"
PageTexts ==
    { <<>>,
      <<103, 97, 114, 98, 97, 103, 101>>,
      <<49, 52, 48, 51, 47, 48, 49, 47, 48, 49>>,
      <<1777, 1780, 1776, 1779, 47, 1777, 1778, 47, 1778, 1785>>,
      <<32, 49, 52, 48, 51, 45, 49, 45, 49, 32>>,
      <<50, 48, 50, 52, 47, 49, 51, 47, 48, 49>> }

PageIdle == /\ jdate = <<MinYear, 1, 1>> /\ gdate = <<>>
            /\ input = <<>> /\ parts = Null /\ iso = Undefined /\ called = FALSE
            /\ BannerIdle /\ RouteIdle /\ UserIdle /\ AuthIdle /\ OrderIdle

\* useState('') twice, the two useMemo; useQuery fetches on mount.
Init == /\ fromJ = <<>>
        /\ toJ = <<>>
        /\ fromG = toGregorianISO(<<>>)
        /\ toG = toGregorianISO(<<>>)
        /\ sent = QueryFn(<<>>, <<>>, toGregorianISO(<<>>), toGregorianISO(<<>>))
        /\ PageIdle

\* The render that follows a change of the fields to f, t, with fg and tg
\* their memoized dates.  The query fetches when its key has changed, unless
\* the cache holds fresh data for the new key (staleTime: 5 minutes, the
\* QueryClient's default); whether it does rests on the fetches before and on
\* the time passed, so a changed key may go either way.
Rerender(f, t, fg, tg) ==
    IF QueryKey(fg, tg) # QueryKey(fromG, toG)
    THEN \E cached \in BOOLEAN :
            sent' = IF cached THEN sent ELSE QueryFn(f, t, fg, tg)
    ELSE UNCHANGED sent

\* onChange of the "from" field: setFromJ(e.target.value).
SetFromJ(s) ==
    /\ s # fromJ
    /\ fromJ' = s
    /\ fromG' = toGregorianISO(s)
    /\ Rerender(s, toJ, fromG', toG)
    /\ UNCHANGED <<toJ, toG, convVars, authVars, orderVars, parseVars, bannerVars, routeVars, userVars>>

\* onChange of the "to" field: setToJ(e.target.value).
SetToJ(s) ==
    /\ s # toJ
    /\ toJ' = s
    /\ toG' = toGregorianISO(s)
    /\ Rerender(fromJ, s, fromG, toG')
    /\ UNCHANGED <<fromJ, fromG, convVars, authVars, orderVars, parseVars, bannerVars, routeVars,
                   userVars>>

\* query.refetch(): the filter button, and after a reset of the sales.  It
\* fetches whatever the cache holds.
Refetch ==
    /\ sent' = QueryFn(fromJ, toJ, fromG, toG)
    /\ UNCHANGED <<fromJ, toJ, fromG, toG, convVars, authVars, orderVars, parseVars, bannerVars,
                   routeVars, userVars>>

Next == \/ \E s \in PageTexts : SetFromJ(s)
        \/ \E s \in PageTexts : SetToJ(s)
        \/ Refetch

Spec == Init /\ [][Next]_vars

Parses(s) == parseJalaliDateString(s) # Null

\* C6: whenever a date field holds text that does not parse, the request
\* built from it carries no parameter for that bound (the key is absent, not
\* present with an empty string), while the other bound is sent unchanged if
\* it parses.
C6_UnparsedBoundIsOmitted ==
    LET f == sent.fromText
        t == sent.toText
        ps == sent.params
    IN  /\ ~Parses(f) => "from" \notin DOMAIN ps
        /\ ~Parses(t) => "to" \notin DOMAIN ps
        /\ (~Parses(f) /\ Parses(t)) =>
              "to" \in DOMAIN ps /\ ps["to"] = toGregorianISO(t)
        /\ (~Parses(t) /\ Parses(f)) =>
              "from" \in DOMAIN ps /\ ps["from"] = toGregorianISO(f)

\* A request built from "garbage" and a date: only "to" is sent.
C6_Witness ==
    /\ sent.fromText = <<103, 97, 114, 98, 97, 103, 101>>
    /\ Parses(sent.toText)
    /\ DOMAIN sent.params = {"to"}

----------------------------------------------------------------------------
(* Banner reordering (MainLayout.tsx): moveBannerUp and moveBannerDown.    *)
(* A banner is its id; the ids are named after the places the banners have *)
(* when the page has loaded them.                                          *)

\* The values the date variables keep while the other pages run.
DateIdle ==
    /\ jdate = <<MinYear, 1, 1>> /\ gdate = <<>>
    /\ input = <<>> /\ parts = Null /\ iso = Undefined /\ called = FALSE
    /\ fromJ = <<>> /\ toJ = <<>> /\ sent = <<>>
    /\ fromG = Undefined /\ toG = Undefined

\* The number of banners, and the number of moves of a run.
NumBanners == 3
MaxMoves == 3

BannerIds == 1..NumBanners

\* banners.findIndex(b => b.id === id): 0-based, -1 when absent.
FindIndex(list, id) ==
    IF \E i \in 1..Len(list) : list[i] = id
    THEN (CHOOSE i \in 1..Len(list) : list[i] = id) - 1
    ELSE -1

\* The destructuring swap with its first assignment only: one banner twice.
SwapAtOverwrite(list, i, j) == [list EXCEPT ![i + 1] = list[j + 1]]

\* The destructuring swap without its effect: the copy is left as it was.
SwapAtNothing(list, i, j) == list

\* [next[i], next[j]] = [next[j], next[i]], i and j 0-based.
SwapAt(list, i, j) ==
    [list EXCEPT ![i + 1] = list[j + 1], ![j + 1] = list[i + 1]]

\* swappingIds.includes(id)
Includes(list, id) == \E i \in 1..Len(list) : list[i] = id

\* s.filter(x => x !== id && x !== otherId)
RECURSIVE FilterOut(_, _, _)
FilterOut(s, id, otherId) ==
    IF s = <<>> THEN <<>>
    ELSE IF Head(s) # id /\ Head(s) # otherId
         THEN <<Head(s)>> \o FilterOut(Tail(s), id, otherId)
         ELSE FilterOut(Tail(s), id, otherId)

\* apiService.reorderBanners(ids): POST /banners/reorder { ids }
ReorderCall(ids) == [ep |-> "reorder", body |-> ids]

\* apiService.swapBannerOrder(idA, idB): POST /banners/swap { idA, idB }
SwapCall(idA, idB) == [ep |-> "swap", body |-> <<idA, idB>>]

\* What the server stores once it has served a reorder: the order it was sent.
ServerReorder(ids) == ids

\* What the server stores once it has served a swap: the two exchanged.
ServerSwap(order, idA, idB) ==
    [i \in DOMAIN order |->
        IF order[i] = idA THEN idB ELSE IF order[i] = idB THEN idA ELSE order[i]]

\* The revert with the swapped copy in the place of the captured one.
RevertToNext(m) == m.next

\* The argument of the revert: setBanners(previous).
RevertTo(m) == m.previous

\* A move from its call to its first await: the copies, the optimistic
\* setBanners(next), the ids marked as swapping, the reorder request sent.
StartMove(id, idx, otherIdx) ==
    LET otherId == banners[otherIdx + 1]
        next == SwapAt(banners, idx, otherIdx)
    IN  /\ banners' = next
        /\ swappingIds' = swappingIds \o <<id, otherId>>
        /\ moves' = Append(moves,
                        [id |-> id, otherId |-> otherId,
                         previous |-> banners, next |-> next,
                         pc |-> "reorder", reorder |-> "pending",
                         calls |-> <<ReorderCall(next)>>])
        /\ UNCHANGED server

\* The "up" button of banner id, disabled while id is in swappingIds.
moveBannerUp(id) ==
    /\ Len(moves) < MaxMoves
    /\ ~Includes(swappingIds, id)
    /\ LET idx == FindIndex(banners, id)
       IN  /\ ~(idx <= 0)
           /\ StartMove(id, idx, idx - 1)
    /\ UNCHANGED <<convVars, authVars, orderVars, parseVars, pageVars, routeVars, userVars>>

\* The "down" button of banner id.
moveBannerDown(id) ==
    /\ Len(moves) < MaxMoves
    /\ ~Includes(swappingIds, id)
    /\ LET idx == FindIndex(banners, id)
       IN  /\ ~(idx = -1 \/ idx >= Len(banners) - 1)
           /\ StartMove(id, idx, idx + 1)
    /\ UNCHANGED <<convVars, authVars, orderVars, parseVars, pageVars, routeVars, userVars>>

\* finally: setSwappingIds(s => s.filter(...)), and the move is over.
Finish(k, how) ==
    /\ swappingIds' = FilterOut(swappingIds, moves[k].id, moves[k].otherId)
    /\ moves' = [moves EXCEPT ![k].pc = how,
                              ![k].reorder =
                                  IF @ = "pending" THEN "ok" ELSE @]

\* The reorder request of move k is served: the await returns.
ReorderResolves(k) ==
    /\ moves[k].pc = "reorder"
    /\ server' = ServerReorder(moves[k].calls[1].body)
    /\ Finish(k, "kept")
    /\ UNCHANGED <<banners, convVars, authVars, orderVars, parseVars, pageVars, routeVars, userVars>>

\* The reorder request of move k fails: the catch sends the swap request.
ReorderRejects(k) ==
    /\ moves[k].pc = "reorder"
    /\ moves' = [moves EXCEPT
                    ![k].pc = "swap",
                    ![k].reorder = "failed",
                    ![k].calls = Append(@, SwapCall(moves[k].id,
                                                    moves[k].otherId))]
    /\ UNCHANGED <<banners, swappingIds, server, convVars, authVars, orderVars, parseVars, pageVars,
                   routeVars, userVars>>

\* The swap request of move k is served.
SwapResolves(k) ==
    /\ moves[k].pc = "swap"
    /\ server' = ServerSwap(server, moves[k].calls[2].body[1],
                            moves[k].calls[2].body[2])
    /\ Finish(k, "kept")
    /\ UNCHANGED <<banners, convVars, authVars, orderVars, parseVars, pageVars, routeVars, userVars>>

\* The swap request of move k fails too: setBanners(previous).
SwapRejects(k) ==
    /\ moves[k].pc = "swap"
    /\ banners' = RevertTo(moves[k])
    /\ Finish(k, "reverted")
    /\ UNCHANGED <<server, convVars, authVars, orderVars, parseVars, pageVars, routeVars, userVars>>

\* The page has loaded the banners: it shows the order the server stores.
InitBanners ==
    /\ banners = [i \in BannerIds |-> i]
    /\ server = [i \in BannerIds |-> i]
    /\ swappingIds = <<>>
    /\ moves = <<>>
    /\ DateIdle /\ RouteIdle /\ UserIdle /\ AuthIdle /\ OrderIdle

NextBanners ==
    \/ \E id \in BannerIds : moveBannerUp(id)
    \/ \E id \in BannerIds : moveBannerDown(id)
    \/ \E k \in 1..Len(moves) : ReorderResolves(k)
    \/ \E k \in 1..Len(moves) : ReorderRejects(k)
    \/ \E k \in 1..Len(moves) : SwapResolves(k)
    \/ \E k \in 1..Len(moves) : SwapRejects(k)

SpecBanners == InitBanners /\ [][NextBanners]_vars

----------------------------------------------------------------------------
(* The claims about the banner moves.                                      *)

\* The list with the places of a and b exchanged.
Exchanged(list, a, b) ==
    [i \in DOMAIN list |->
        IF list[i] = a THEN b ELSE IF list[i] = b THEN a ELSE list[i]]

\* The ids that stand at different places in the two lists.
MovedIds(l1, l2) == {l1[i] : i \in {j \in DOMAIN l1 : l1[j] # l2[j]}}

IsOrderOfAll(ids) ==
    /\ Len(ids) = NumBanners
    /\ \A b \in BannerIds : \E i \in 1..Len(ids) : ids[i] = b

C15_Step ==
    /\ Len(moves') = Len(moves) + 1 =>
           LET m == moves'[Len(moves')]
           IN  /\ m.previous = banners
               /\ banners' = Exchanged(banners, m.id, m.otherId)
               /\ banners' # banners
    /\ \A k \in 1..Len(moves) :
           /\ (moves[k].pc = "swap" /\ moves'[k].pc = "reverted") =>
                  banners' = moves[k].previous
           /\ (moves[k].pc \in {"reorder", "swap"} /\ moves'[k].pc = "kept") =>
                  /\ banners' = banners
                  /\ Len(moves) = 1 =>
                         banners' = Exchanged(moves[k].previous, moves[k].id,
                                              moves[k].otherId)

C16_ReorderThenSwapOnce ==
    \A k \in 1..Len(moves) :
        LET m == moves[k]
            newOrder == Exchanged(m.previous, m.id, m.otherId)
        IN  /\ Len(m.calls) \in 1..2
            /\ m.calls[1] = [ep |-> "reorder", body |-> newOrder]
            /\ IsOrderOfAll(newOrder)
            /\ Cardinality(MovedIds(m.previous, newOrder)) = 2
            /\ Len(m.calls) = 2 =>
                   /\ m.reorder = "failed"
                   /\ m.calls[2].ep = "swap"
                   /\ Len(m.calls[2].body) = 2
                   /\ {m.calls[2].body[1], m.calls[2].body[2]}
                          = MovedIds(m.previous, newOrder)
            /\ m.reorder # "failed" => Len(m.calls) = 1

C16_Witness ==
    \E k \in 1..Len(moves) :
        /\ moves[k].pc = "kept"
        /\ moves[k].reorder = "failed"
        /\ moves[k].calls[2] = SwapCall(moves[k].id, moves[k].otherId)

AllMovesOver ==
    /\ moves # <<>>
    /\ \A k \in 1..Len(moves) : moves[k].pc \in {"kept", "reverted"}

\* C17: starting from a displayed order equal to the server's, after any
\* interleaving of moveBannerUp and moveBannerDown calls (several moves may
\* be in flight at once and complete or fail in any order), once every
\* request has completed the displayed order equals the server's order.
C17_DisplayedIsServerOrder == AllMovesOver => banners = server

MoveInFlight(k) == moves[k].pc \in {"reorder", "swap"}

\* C26: while the persistence request of a banner move is in flight, both
\* banner ids of that move are members of swappingIds (their move buttons are
\* disabled), for every interleaving of moves started from neighbouring
\* banners.
C26_InFlightIdsAreSwapping ==
    \A k \in 1..Len(moves) :
        MoveInFlight(k) =>
            /\ Includes(swappingIds, moves[k].id)
            /\ Includes(swappingIds, moves[k].otherId)

\* C27: with no reload, create or delete in between, after any interleaving
\* of moveBannerUp and moveBannerDown calls and of their completions,
\* rollbacks included, the displayed list holds exactly the loaded ids, each
\* once; moving the first banner up or the last banner down is no step: it
\* changes nothing and sends no request.
C27_SameIdsAndNoMovePastTheEnds ==
    /\ IsOrderOfAll(banners)
    /\ ~ENABLED moveBannerUp(banners[1])
    /\ ~ENABLED moveBannerDown(banners[Len(banners)])

C27_Witness ==
    /\ IsOrderOfAll(banners)
    /\ \E k \in 1..Len(moves) : moves[k].pc = "reverted"
    /\ \E k \in 1..Len(moves) : moves[k].pc = "kept"
    /\ ~Includes(swappingIds, banners[1])
    /\ Len(moves) < MaxMoves

----------------------------------------------------------------------------
(* The routes of App and their redirects (ProtectedRoute, RoleHomeRedirect, *)
(* the /login route).  A route element is either a <Navigate to> or a page. *)

Roles == {"ADMIN", "PRIMARY", "SECONDARY", "USER"}

\* user is null: user?.role is undefined.
NoRole == ""

Navigate(to) == [kind |-> "navigate", to |-> to]
Element(name) == [kind |-> "render", to |-> name]

\* The fallback of ProtectedRoute and the target of RoleHomeRedirect: the same
\* conditional in both places.
HomeOf(r) ==
    IF r = "ADMIN" THEN "/dashboard"
    ELSE IF r = "PRIMARY" THEN "/orders"
    ELSE IF r = "SECONDARY" THEN "/products"
    ELSE "/login"

RoleHomeRedirect == Navigate(HomeOf(role))

\* ProtectedRoute once hydrated; allowedRoles defaults to the empty list.
ProtectedRoute(allowedRoles, children) ==
    IF ~isAuthenticated THEN Navigate("/login")
    ELSE IF allowedRoles # {} /\ role # NoRole /\ role \notin allowedRoles
         THEN Navigate(HomeOf(role))
         ELSE children

\* The child routes of "/*" and their allowedRoles.
AllowedRoles ==
    [p \in {"/dashboard", "/footer-settings", "/comments", "/tables"}
        |-> {"ADMIN"}]
    @@ [p \in {"/products", "/categories", "/banners"}
        |-> {"ADMIN", "SECONDARY"}]
    @@ [p \in {"/orders", "/users", "/sales-report"} |-> {"ADMIN", "PRIMARY"}]

\* The paths a chain can start at: the routes, and a path no child matches.
Paths == {"/login", "/", "/no-such-page"} \cup DOMAIN AllowedRoles

\* <Routes>: the element of the route that matches the path.
RouteElement(path) ==
    IF path = "/login"
    THEN (IF isAuthenticated THEN Navigate("/dashboard")
          ELSE Element("LoginPage"))
    ELSE IF path = "/"
    THEN ProtectedRoute({}, RoleHomeRedirect)
    ELSE ProtectedRoute({},
             IF path \in DOMAIN AllowedRoles
             THEN ProtectedRoute(AllowedRoles[path], Element(path))
             ELSE Element("MainLayout"))

\* The store as login or rehydration leaves it, and the path typed or linked.
InitRoutes ==
    /\ isAuthenticated \in BOOLEAN
    /\ role \in (IF isAuthenticated THEN Roles \cup {NoRole} ELSE {NoRole})
    /\ location \in Paths
    /\ visited = {location}
    /\ page = ""
    /\ DateIdle /\ BannerIdle /\ UserIdle /\ AuthIdle /\ OrderIdle

\* <Navigate to replace />: the router moves to the target.
FollowNavigate ==
    /\ page = ""
    /\ RouteElement(location).kind = "navigate"
    /\ location' = RouteElement(location).to
    /\ visited' = visited \cup {location'}
    /\ UNCHANGED <<isAuthenticated, role, page, convVars, authVars, orderVars, parseVars, pageVars,
                   bannerVars, userVars>>

\* The matched element is a page: it is rendered and the chain ends.
RenderPage ==
    /\ page = ""
    /\ RouteElement(location).kind = "render"
    /\ page' = RouteElement(location).to
    /\ UNCHANGED <<isAuthenticated, role, location, visited, convVars, authVars, orderVars,
                   parseVars, pageVars, bannerVars, userVars>>

NextRoutes == FollowNavigate \/ RenderPage

SpecRoutes == InitRoutes /\ [][NextRoutes]_vars

\* The chain is about to go back to a path it has been at.
RedirectsBack ==
    /\ page = ""
    /\ RouteElement(location).kind = "navigate"
    /\ RouteElement(location).to \in visited

\* C18: for an authenticated user of any role (ADMIN, PRIMARY, SECONDARY,
\* USER) and any starting path, the chain of redirects of the /login route,
\* RoleHomeRedirect and ProtectedRoute ends after finitely many steps at a
\* rendered page: no redirect leads back to a path of the chain.
C18_NoRedirectCycle ==
    (isAuthenticated /\ role \in Roles) => ~RedirectsBack

\* C23: a route element wrapped in ProtectedRoute with a non-empty
\* allowedRoles list renders its children only when the store is
\* authenticated and the stored user's role is a member of allowedRoles, for
\* every user value the login flow can store.
C23_ChildrenOnlyForAllowedRoles ==
    page \in DOMAIN AllowedRoles =>
        (isAuthenticated /\ role \in AllowedRoles[page])

----------------------------------------------------------------------------
(* The Users page: handleRoleChange, handleStatusChange and patchUser.     *)
(* A user is its id; a list of users maps each id to its role and status.  *)

\* The number of users, and the number of changes of a run.
NumUsers == 2
MaxChanges == 2

UserIds == 1..NumUsers

UserLists == [UserIds -> [role : Roles, isActive : BOOLEAN]]

\* users.filter((u) => u.role === 'ADMIN' && u.id !== userId)
OtherAdmins(list, userId) ==
    {u \in DOMAIN list : list[u].role = "ADMIN" /\ u # userId}

\* users.filter((u) => u.role === 'ADMIN' && u.id !== userId && u.isActive)
OtherActiveAdmins(list, userId) ==
    {u \in DOMAIN list : list[u].role = "ADMIN" /\ u # userId /\ list[u].isActive}

\* disabled={updatingIds.has(u.id) || !isAdmin}, on both selects.
SelectEnabled(userId) == ~(userId \in updatingIds \/ ~isAdmin)

\* What the server stores once it has served PATCH /users/:id.
ServerPatch(list, p) ==
    IF p.field = "role"
    THEN [list EXCEPT ![p.id].role = p.value]
    ELSE [list EXCEPT ![p.id].isActive = p.value]

\* A handler from its accepted call to its await: the id is marked as
\* updating and patchUser sends the request.
SendPatch(userId, field, value) ==
    /\ updatingIds' = updatingIds \cup {userId}
    /\ patches' = patches \cup {[id |-> userId, field |-> field, value |-> value]}
    /\ fresh' = (fresh /\ users = dbUsers /\ patches = {})
    /\ changes' = changes + 1
    /\ UNCHANGED <<isAdmin, users, dbUsers, stale>>

\* The role select of user userId is set to newRole.
handleRoleChange(userId, newRole) ==
    /\ changes < MaxChanges
    /\ SelectEnabled(userId)
    /\ isAdmin
    /\ userId \in DOMAIN users
    /\ users[userId].role # newRole
    /\ ~(/\ users[userId].role = "ADMIN" /\ newRole # "ADMIN"
         /\ OtherAdmins(users, userId) = {})
    /\ SendPatch(userId, "role", newRole)
    /\ UNCHANGED <<convVars, authVars, orderVars, parseVars, pageVars, bannerVars, routeVars>>

\* The status select of user userId is set to isActive.
handleStatusChange(userId, isActive) ==
    /\ changes < MaxChanges
    /\ SelectEnabled(userId)
    /\ userId \in DOMAIN users
    /\ ~(/\ users[userId].role = "ADMIN" /\ ~isActive
         /\ OtherActiveAdmins(users, userId) = {})
    /\ SendPatch(userId, "isActive", isActive)
    /\ UNCHANGED <<convVars, authVars, orderVars, parseVars, pageVars, bannerVars, routeVars>>

\* The request is served: onSuccess invalidates the ['users'] query, the
\* finally takes the id out of updatingIds.
PatchResolves(p) ==
    /\ p \in patches
    /\ dbUsers' = ServerPatch(dbUsers, p)
    /\ stale' = TRUE
    /\ updatingIds' = updatingIds \ {p.id}
    /\ patches' = patches \ {p}
    /\ UNCHANGED <<isAdmin, users, fresh, changes, convVars, authVars, orderVars, parseVars,
                   pageVars, bannerVars, routeVars>>

\* The request fails: the catch shows a toast, the finally as above.
PatchRejects(p) ==
    /\ p \in patches
    /\ updatingIds' = updatingIds \ {p.id}
    /\ patches' = patches \ {p}
    /\ UNCHANGED <<isAdmin, users, dbUsers, stale, fresh, changes, convVars, authVars, orderVars,
                   parseVars, pageVars, bannerVars, routeVars>>

\* The refetch of the invalidated query returns the users the server stores.
RefetchUsers ==
    /\ stale
    /\ users' = dbUsers
    /\ stale' = FALSE
    /\ UNCHANGED <<isAdmin, dbUsers, updatingIds, patches, fresh, changes,
                   convVars, authVars, orderVars, parseVars, pageVars, bannerVars, routeVars>>

HasAdmin(list) == \E u \in DOMAIN list : list[u].role = "ADMIN"

HasActiveAdmin(list) ==
    \E u \in DOMAIN list : list[u].role = "ADMIN" /\ list[u].isActive

\* The page has loaded the users; at least one of them is an active ADMIN.
InitUsers ==
    /\ dbUsers \in {l \in UserLists : HasActiveAdmin(l)}
    /\ users = dbUsers
    /\ isAdmin \in BOOLEAN
    /\ updatingIds = {}
    /\ patches = {}
    /\ stale = FALSE
    /\ fresh = TRUE
    /\ changes = 0
    /\ DateIdle /\ BannerIdle /\ RouteIdle /\ AuthIdle /\ OrderIdle

NextUsers ==
    \/ \E u \in UserIds, r \in Roles : handleRoleChange(u, r)
    \/ \E u \in UserIds, a \in BOOLEAN : handleStatusChange(u, a)
    \/ \E p \in patches : PatchResolves(p)
    \/ \E p \in patches : PatchRejects(p)
    \/ RefetchUsers

SpecUsers == InitUsers /\ [][NextUsers]_vars

\* C19: if at least one user has role ADMIN initially, then after any
\* sequence of role changes accepted by handleRoleChange, changes for
\* different users while earlier requests are in flight and the list is not
\* yet refetched included, at least one user has role ADMIN on the server.
C19_ServerKeepsAnAdmin == HasAdmin(dbUsers)

\* C20: if at least one active ADMIN exists initially, then after any
\* sequence of role and activation changes accepted by handleRoleChange and
\* handleStatusChange, each applied to an up-to-date user list, at least one
\* user is still both ADMIN and active.
C20_ServerKeepsAnActiveAdmin == fresh => HasActiveAdmin(dbUsers)

----------------------------------------------------------------------------
(* The session: the auth store (useAuthStore), ApiService's constructor,   *)
(* interceptors, login, logout and auto-logout timer, and localStorage.    *)
(* Times are in milliseconds; the clock moves an hour at a time.  A        *)
(* request's headers reach the request interceptor with the client's       *)
(* default headers merged in, as axios 1.x does.                           *)

\* How far the clock runs, in hours after the first, and how many requests
\* await a response at once.
MaxHours == 3
MaxInflight == 1

\* The lifetime of a session, and the step of the clock.
TwoHours == 2 * 60 * 60 * 1000
Hour == TwoHours \div 2

\* localStorage.getItem of an absent item; a header that is not set.
NoItem == "(none)"

\* The absent item 'adminAccessTokenExpiry'; no successful login so far.
NoExpiry == -1
NoTime == -1

\* The accessToken of a login response: a token, the texts a faulty server
\* sends for none, blank, or empty.
AccessTokens == {"tok", "undefined", " ", ""}

\* token.trim() === ''
IsBlank(t) == t \in {"", " "}

\* isValidToken of the store, and the same test in the constructor and in
\* both interceptors.
isValidToken(t) ==
    t # NoItem /\ t # "" /\ ~IsBlank(t) /\ t # "undefined" /\ t # "null"

\* expRaw ? Number(expRaw) : NaN, then !exp || Number.isNaN(exp) negated.
HasExpiry(e) == e # NoExpiry /\ e # 0

\* The test of expiry with "<" for "<=".
IsExpiredStrict(e, t) == e < t

\* exp <= now
IsExpired(e, t) == e <= t

\* The header with the else branch of the interceptor dropped: the client's
\* default stays on the request.
InterceptHeaderKeepDefault(raw, default) ==
    IF isValidToken(raw) THEN raw ELSE default

\* The Authorization header a request leaves the interceptor with: the
\* stored token if it is valid, otherwise none (the default is deleted).
InterceptHeader(raw, default) ==
    IF isValidToken(raw) THEN raw ELSE NoItem

Max(a, b) == IF a >= b THEN a ELSE b

\* window.setTimeout: an id no pending timeout has.
FreshId(ts) ==
    CHOOSE i \in 1..(Cardinality(ts) + 1) :
        /\ \A t \in ts : t.id # i
        /\ \A k \in 1..(i - 1) : \E t \in ts : t.id = k

\* scheduleAutoLogout without its clearTimeout.
ScheduleAutoLogoutNoClear(ts, handle, delayMs) ==
    LET id == FreshId(ts)
    IN  [timers |-> ts \cup {[id |-> id, due |-> now + Max(0, delayMs)]},
         handle |-> id]

\* scheduleAutoLogout(delayMs): the timeouts and the handle it leaves.
ScheduleAutoLogout(ts, handle, delayMs) ==
    LET cleared == IF handle # 0 THEN {t \in ts : t.id # handle} ELSE ts
        id == FreshId(cleared)
    IN  [timers |-> cleared \cup {[id |-> id, due |-> now + Max(0, delayMs)]},
         handle |-> id]

\* The request interceptor on a request made now: what it leaves in
\* localStorage, the timeouts, and whether and how the request goes out.
Intercept ==
    LET header == InterceptHeader(lsToken, defaultAuth)
        keep == [token |-> lsToken, user |-> lsUser, expiry |-> lsExpiry,
                 timers |-> timers, handle |-> autoLogoutTimer,
                 auth |-> header, left |-> TRUE, error |-> "",
                 leaving |-> leaving]
    IN  IF isValidToken(lsToken)
        THEN IF ~HasExpiry(lsExpiry)
             THEN LET sch == ScheduleAutoLogout(timers, autoLogoutTimer,
                                                TwoHours)
                  IN  [keep EXCEPT !.expiry = now + TwoHours,
                                   !.timers = sch.timers,
                                   !.handle = sch.handle]
             ELSE IF IsExpired(lsExpiry, now)
                  THEN [keep EXCEPT !.token = NoItem, !.user = NoItem,
                                    !.left = FALSE, !.leaving = TRUE,
                                    !.error = "Admin token expired"]
                  ELSE LET sch == ScheduleAutoLogout(timers, autoLogoutTimer,
                                                     lsExpiry - now)
                       IN  [keep EXCEPT !.timers = sch.timers,
                                        !.handle = sch.handle]
        ELSE keep

\* The record of a run of the interceptor: what went out, and what the
\* client's default header and the session were when it ran.
Logged(out) ==
    [flip |-> ~lastReq.flip, auth |-> out.auth, left |-> out.left,
     error |-> out.error, default |-> defaultAuth,
     afterLogout |-> sinceLogout]

\* Any request of a page: it runs the interceptor and, unless rejected,
\* awaits its response.
SendRequest ==
    /\ inflight < MaxInflight
    /\ LET out == Intercept
       IN  /\ lsToken' = out.token
           /\ lsUser' = out.user
           /\ lsExpiry' = out.expiry
           /\ timers' = out.timers
           /\ autoLogoutTimer' = out.handle
           /\ leaving' = out.leaving
           /\ lastReq' = Logged(out)
           /\ inflight' = IF out.left THEN inflight + 1 ELSE inflight
           /\ sinceLogout' = (sinceLogout \/ ~out.left)
    /\ UNCHANGED <<defaultAuth, now, loginAt, isAuthenticated, role, location,
                   visited, page, convVars, parseVars, pageVars, bannerVars,
                   userVars, orderVars>>

\* A response arrives.  On 401 or 403 the response interceptor logs out and
\* leaves for /login if a token is stored and the expiry has passed.
ReceiveResponse(status) ==
    /\ inflight > 0
    /\ inflight' = inflight - 1
    /\ IF /\ status \in {401, 403}
          /\ isValidToken(lsToken)
          /\ HasExpiry(lsExpiry) /\ IsExpired(lsExpiry, now)
       THEN /\ lsToken' = NoItem
            /\ lsUser' = NoItem
            /\ leaving' = TRUE
            /\ sinceLogout' = TRUE
       ELSE UNCHANGED <<lsToken, lsUser, leaving, sinceLogout>>
    /\ UNCHANGED <<lsExpiry, defaultAuth, timers, autoLogoutTimer, now, lastReq,
                   loginAt, isAuthenticated, role, location, visited, page,
                   convVars, parseVars, pageVars, bannerVars, userVars,
                   orderVars>>

\* The login form is submitted and the server answers with accessToken (and
\* a user).  ApiService.login stores a non-blank token, the user and a new
\* expiry, sets the default header and the timer; the store then accepts the
\* token only if it is valid.  With an empty accessToken nothing is stored
\* and the store throws, as when the server refuses the credentials.
Login(accessToken) ==
    /\ ~isAuthenticated
    /\ ~leaving
    /\ Intercept.left
    /\ lastReq' = Logged(Intercept)
    /\ IF accessToken # "" /\ ~IsBlank(accessToken)
       THEN LET sch == ScheduleAutoLogout(Intercept.timers, Intercept.handle,
                                          TwoHours)
            IN  /\ defaultAuth' = accessToken
                /\ lsToken' = accessToken
                /\ lsUser' = "user"
                /\ lsExpiry' = now + TwoHours
                /\ timers' = sch.timers
                /\ autoLogoutTimer' = sch.handle
       ELSE /\ lsToken' = Intercept.token
            /\ lsUser' = Intercept.user
            /\ lsExpiry' = Intercept.expiry
            /\ timers' = Intercept.timers
            /\ autoLogoutTimer' = Intercept.handle
            /\ UNCHANGED defaultAuth
    /\ isAuthenticated' = isValidToken(accessToken)
    /\ loginAt' = IF isValidToken(accessToken) THEN now
                  ELSE IF IsBlank(accessToken) THEN loginAt ELSE NoTime
    /\ sinceLogout' = (sinceLogout /\ ~isValidToken(accessToken))
    /\ UNCHANGED <<now, inflight, leaving, role, location, visited, page,
                   convVars, parseVars, pageVars, bannerVars, userVars,
                   orderVars>>

\* The logout of the header: useAuthStore.logout.
StoreLogout ==
    /\ isAuthenticated
    /\ ~leaving
    /\ lsToken' = NoItem
    /\ lsUser' = NoItem
    /\ isAuthenticated' = FALSE
    /\ sinceLogout' = TRUE
    /\ UNCHANGED <<lsExpiry, defaultAuth, timers, autoLogoutTimer, now,
                   inflight, lastReq, loginAt, leaving, role, location,
                   visited, page, convVars, parseVars, pageVars, bannerVars,
                   userVars, orderVars>>

\* The auto-logout timeout fires: ApiService.logout and the leave for /login.
TimerFires(t) ==
    /\ t \in timers
    /\ t.due <= now
    /\ timers' = timers \ {t}
    /\ lsToken' = NoItem
    /\ lsUser' = NoItem
    /\ leaving' = TRUE
    /\ sinceLogout' = TRUE
    /\ UNCHANGED <<lsExpiry, defaultAuth, autoLogoutTimer, now, inflight,
                   lastReq, loginAt, isAuthenticated, role, location, visited,
                   page, convVars, parseVars, pageVars, bannerVars, userVars,
                   orderVars>>

\* The document is loaded anew (after a leave for /login, or by the user):
\* the timeouts, the client and its defaults are gone; the store rehydrates
\* from localStorage; the constructor schedules the timer for a stored token.
Reload ==
    /\ isAuthenticated' = (lsUser # NoItem /\ isValidToken(lsToken))
    /\ defaultAuth' = NoItem
    /\ inflight' = 0
    /\ leaving' = FALSE
    /\ IF isValidToken(lsToken)
       THEN LET exp == IF HasExpiry(lsExpiry) THEN lsExpiry ELSE now + TwoHours
                sch == ScheduleAutoLogout({}, 0, exp - now)
            IN  /\ lsExpiry' = exp
                /\ timers' = sch.timers
                /\ autoLogoutTimer' = sch.handle
       ELSE /\ timers' = {}
            /\ autoLogoutTimer' = 0
            /\ UNCHANGED lsExpiry
    /\ UNCHANGED <<lsToken, lsUser, now, lastReq, loginAt, sinceLogout, role,
                   location, visited, page, convVars, parseVars, pageVars,
                   bannerVars, userVars, orderVars>>

\* An hour passes.  A due timeout fires and a started leave completes long
\* before that.
PassHour ==
    /\ now < (1 + MaxHours) * Hour
    /\ ~leaving
    /\ \A t \in timers : t.due > now
    /\ now' = now + Hour
    /\ UNCHANGED <<lsToken, lsUser, lsExpiry, defaultAuth, timers,
                   autoLogoutTimer, inflight, lastReq, loginAt, sinceLogout,
                   leaving, isAuthenticated, role, location, visited, page,
                   convVars, parseVars, pageVars, bannerVars, userVars,
                   orderVars>>

\* The first visit: nothing is stored, the store is in its initial state.
InitAuth ==
    /\ lsToken = NoItem
    /\ lsUser = NoItem
    /\ lsExpiry = NoExpiry
    /\ defaultAuth = NoItem
    /\ timers = {}
    /\ autoLogoutTimer = 0
    /\ now = Hour
    /\ inflight = 0
    /\ lastReq = [flip |-> FALSE, auth |-> NoItem, left |-> FALSE,
                  error |-> "", default |-> NoItem, afterLogout |-> FALSE]
    /\ loginAt = NoTime
    /\ sinceLogout = FALSE
    /\ leaving = FALSE
    /\ isAuthenticated = FALSE
    /\ role = "" /\ location = "/" /\ visited = {} /\ page = ""
    /\ DateIdle /\ BannerIdle /\ UserIdle /\ OrderIdle

NextAuth ==
    \/ SendRequest
    \/ \E status \in {200, 401} : ReceiveResponse(status)
    \/ \E a \in AccessTokens : Login(a)
    \/ StoreLogout
    \/ \E t \in timers : TimerFires(t)
    \/ Reload
    \/ PassHour

SpecAuth == InitAuth /\ [][NextAuth]_vars

\* The interceptor has just run: every run changes the record.
InterceptorRan == lastReq' # lastReq

\* C21: whenever the store says isAuthenticated, a valid token is in
\* localStorage, across login, manual logout, the auto-logout timer, the
\* interceptors' detection of expiry, and rehydration.
C21_AuthenticatedHasToken == isAuthenticated => isValidToken(lsToken)

\* C22: when the interceptor runs with a stored expiry at or before the
\* current time, the request does not leave with an Authorization header;
\* with a stored token it is rejected with 'Admin token expired' and the
\* stored token and user are removed.
C22_Step ==
    (InterceptorRan /\ HasExpiry(lsExpiry) /\ lsExpiry <= now) =>
        /\ lastReq'.left => lastReq'.auth = NoItem
        /\ isValidToken(lsToken) =>
            /\ ~lastReq'.left
            /\ lastReq'.error = "Admin token expired"
            /\ lsToken' = NoItem
            /\ lsUser' = NoItem

C22_ExpiredNeverLeaves == [][C22_Step]_vars

\* A request was rejected as expired and the token and user are gone.
C22_Witness ==
    /\ lastReq.error = "Admin token expired"
    /\ ~lastReq.left
    /\ lsToken = NoItem
    /\ lsUser = NoItem
    /\ lsExpiry <= now

\* C24: from a logout until the next successful login, no request leaves
\* the interceptor with an Authorization header, although login installed a
\* default header on the client.
C24_Step ==
    (InterceptorRan /\ sinceLogout /\ lastReq'.left) => lastReq'.auth = NoItem

C24_NoHeaderAfterLogout == [][C24_Step]_vars

\* After a logout, with the default header of the login still installed, a
\* request went out without Authorization.
C24_Witness ==
    /\ lastReq.afterLogout
    /\ lastReq.default = "tok"
    /\ lastReq.left
    /\ lastReq.auth = NoItem

\* C25: after a successful login at loginAt with no later login, the stored
\* expiry stays loginAt + 2h, at most one auto-logout timeout is pending,
\* exactly one (due at the expiry) while the token is stored, and past the
\* expiry the token and user are removed.
C25_TwoHoursFromLogin ==
    loginAt # NoTime =>
        /\ lsExpiry = loginAt + TwoHours
        /\ Cardinality(timers) <= 1
        /\ isValidToken(lsToken) =>
            \E t \in timers :
                t.id = autoLogoutTimer /\ t.due = loginAt + TwoHours
        /\ now > loginAt + TwoHours => (lsToken = NoItem /\ lsUser = NoItem)

\* The two hours after a login have passed: the timeout has fired and the
\* token and user are gone.
C25_Witness ==
    /\ loginAt # NoTime
    /\ now > loginAt + TwoHours
    /\ lsExpiry = loginAt + TwoHours
    /\ timers = {}
    /\ lsToken = NoItem
    /\ lsUser = NoItem

\* While the store is not authenticated no valid token is stored, so the
\* login request always passes the interceptor.
LoginRequestPasses == ~isAuthenticated => ~isValidToken(lsToken)

----------------------------------------------------------------------------
(* The orders page: the status editor, the details dialog (both show       *)
(* selectedOrder), the list refreshed every five seconds, and the server.  *)
(* A state update and the effects it triggers are one step.                *)

\* How many orders the list holds, and how many getOrderById requests are
\* in flight at once.
NumOrders == 2
MaxLoads == 1

Orders == 1..NumOrders

\* Order['status'], and what the orders of the list start with.
Statuses == {"PENDING", "CONFIRMED", "DELIVERED", "PAID", "CANCELLED"}
LoadedStatuses == {"PENDING", "CANCELLED"}

statusOptions == {"CONFIRMED", "DELIVERED", "PAID"}

\* The options the admin picks from in a run.
PickedOptions == {"CONFIRMED"}

\* selectedOrder = null (of a selected order the id is kept: its other
\* fields are only displayed); no mutation pending.
NoOrder == 0
NoUpdate == [orderId |-> 0, status |-> ""]

\* The effect without its body.
CancelledEffectNothing(data, sel, open, status) ==
    [selectedOrder |-> sel, isStatusDialogOpen |-> open, newStatus |-> status]

\* The effect on [data?.data, selectedOrder]: if the selected order is
\* CANCELLED in the loaded data, the editor is closed and cleared.
CancelledEffect(data, sel, open, status) ==
    IF sel # NoOrder /\ sel \in DOMAIN data /\ data[sel] = "CANCELLED"
    THEN [selectedOrder |-> NoOrder, isStatusDialogOpen |-> FALSE,
          newStatus |-> ""]
    ELSE [selectedOrder |-> sel, isStatusDialogOpen |-> open,
          newStatus |-> status]

\* The edit button of a row of the loaded list.
handleEditStatus(o) ==
    /\ ordersData[o] # "CANCELLED"
    /\ LET after == CancelledEffect(ordersData, o, TRUE, ordersData[o])
       IN  /\ selectedOrder' = after.selectedOrder
           /\ isStatusDialogOpen' = after.isStatusDialogOpen
           /\ newStatus' = after.newStatus
    /\ UNCHANGED <<ordersData, dbOrders, isDetailsDialogOpen, detailLoads,
                   updating, lastUpdate, convVars, parseVars, pageVars,
                   bannerVars, routeVars, userVars, authVars>>

\* The select of the editor.
SetNewStatus(status) ==
    /\ isStatusDialogOpen
    /\ selectedOrder # NoOrder
    /\ newStatus' = status
    /\ UNCHANGED <<ordersData, dbOrders, selectedOrder, isStatusDialogOpen,
                   isDetailsDialogOpen, detailLoads, updating, lastUpdate,
                   convVars, parseVars, pageVars, bannerVars, routeVars,
                   userVars, authVars>>

\* The save button of the editor (disabled while a mutation is pending or
\* newStatus is empty): the request is sent unless CANCELLED is asked.
handleUpdateStatus ==
    /\ isStatusDialogOpen
    /\ updating = NoUpdate
    /\ newStatus # ""
    /\ selectedOrder # NoOrder
    /\ newStatus # "CANCELLED"
    /\ updating' = [orderId |-> selectedOrder, status |-> newStatus]
    /\ lastUpdate' = ordersData[selectedOrder]
    /\ UNCHANGED <<ordersData, dbOrders, selectedOrder, isStatusDialogOpen,
                   newStatus, isDetailsDialogOpen, detailLoads, convVars,
                   parseVars, pageVars, bannerVars, routeVars, userVars,
                   authVars>>

\* The server stores the status; onSuccess closes and clears the editor.
UpdateResolves ==
    /\ updating # NoUpdate
    /\ dbOrders' = [dbOrders EXCEPT ![updating.orderId] = updating.status]
    /\ updating' = NoUpdate
    /\ isStatusDialogOpen' = FALSE
    /\ selectedOrder' = NoOrder
    /\ newStatus' = ""
    /\ UNCHANGED <<ordersData, isDetailsDialogOpen, detailLoads, lastUpdate,
                   convVars, parseVars, pageVars, bannerVars, routeVars,
                   userVars, authVars>>

\* The request fails: onError shows a toast.
UpdateRejects ==
    /\ updating # NoUpdate
    /\ updating' = NoUpdate
    /\ UNCHANGED <<ordersData, dbOrders, selectedOrder, isStatusDialogOpen,
                   newStatus, isDetailsDialogOpen, detailLoads, lastUpdate,
                   convVars, parseVars, pageVars, bannerVars, routeVars,
                   userVars, authVars>>

\* The cancel button of the editor.
handleCloseStatusDialog ==
    /\ isStatusDialogOpen
    /\ isStatusDialogOpen' = FALSE
    /\ selectedOrder' = NoOrder
    /\ newStatus' = ""
    /\ UNCHANGED <<ordersData, dbOrders, isDetailsDialogOpen, detailLoads,
                   updating, lastUpdate, convVars, parseVars, pageVars,
                   bannerVars, routeVars, userVars, authVars>>

\* The editor is dismissed (Escape, overlay, close button):
\* onOpenChange={setIsStatusDialogOpen}.
DismissStatusDialog ==
    /\ isStatusDialogOpen
    /\ isStatusDialogOpen' = FALSE
    /\ UNCHANGED <<ordersData, dbOrders, selectedOrder, newStatus,
                   isDetailsDialogOpen, detailLoads, updating, lastUpdate,
                   convVars, parseVars, pageVars, bannerVars, routeVars,
                   userVars, authVars>>

\* The view button of a row: the details dialog opens and getOrderById is
\* sent.
handleOpenDetails(o) ==
    /\ o \notin detailLoads
    /\ Cardinality(detailLoads) < MaxLoads
    /\ isDetailsDialogOpen' = TRUE
    /\ detailLoads' = detailLoads \cup {o}
    /\ UNCHANGED <<ordersData, dbOrders, selectedOrder, isStatusDialogOpen,
                   newStatus, updating, lastUpdate, convVars, parseVars,
                   pageVars, bannerVars, routeVars, userVars, authVars>>

\* getOrderById resolves with the order as the server has it:
\* setSelectedOrder(full), whatever is open by now.
DetailsLoaded(o) ==
    /\ o \in detailLoads
    /\ detailLoads' = detailLoads \ {o}
    /\ LET after == CancelledEffect(ordersData, o, isStatusDialogOpen,
                                    newStatus)
       IN  /\ selectedOrder' = after.selectedOrder
           /\ isStatusDialogOpen' = after.isStatusDialogOpen
           /\ newStatus' = after.newStatus
    /\ UNCHANGED <<ordersData, dbOrders, isDetailsDialogOpen, updating,
                   lastUpdate, convVars, parseVars, pageVars, bannerVars,
                   routeVars, userVars, authVars>>

\* getOrderById fails: a toast, the dialog stays open.
DetailsFail(o) ==
    /\ o \in detailLoads
    /\ detailLoads' = detailLoads \ {o}
    /\ UNCHANGED <<ordersData, dbOrders, selectedOrder, isStatusDialogOpen,
                   newStatus, isDetailsDialogOpen, updating, lastUpdate,
                   convVars, parseVars, pageVars, bannerVars, routeVars,
                   userVars, authVars>>

\* The close of the details dialog.
handleCloseDetails ==
    /\ isDetailsDialogOpen
    /\ isDetailsDialogOpen' = FALSE
    /\ selectedOrder' = NoOrder
    /\ UNCHANGED <<ordersData, dbOrders, isStatusDialogOpen, newStatus,
                   detailLoads, updating, lastUpdate, convVars, parseVars,
                   pageVars, bannerVars, routeVars, userVars, authVars>>

\* The details dialog is dismissed: onOpenChange={setIsDetailsDialogOpen}.
DismissDetailsDialog ==
    /\ isDetailsDialogOpen
    /\ isDetailsDialogOpen' = FALSE
    /\ UNCHANGED <<ordersData, dbOrders, selectedOrder, isStatusDialogOpen,
                   newStatus, detailLoads, updating, lastUpdate, convVars,
                   parseVars, pageVars, bannerVars, routeVars, userVars,
                   authVars>>

\* The list is refetched (every five seconds, and after an update).
RefetchOrders ==
    /\ ordersData # dbOrders
    /\ ordersData' = dbOrders
    /\ LET after == CancelledEffect(dbOrders, selectedOrder,
                                    isStatusDialogOpen, newStatus)
       IN  /\ selectedOrder' = after.selectedOrder
           /\ isStatusDialogOpen' = after.isStatusDialogOpen
           /\ newStatus' = after.newStatus
    /\ UNCHANGED <<dbOrders, isDetailsDialogOpen, detailLoads, updating,
                   lastUpdate, convVars, parseVars, pageVars, bannerVars,
                   routeVars, userVars, authVars>>

\* The customer cancels an order.
CustomerCancels(o) ==
    /\ dbOrders[o] # "CANCELLED"
    /\ dbOrders' = [dbOrders EXCEPT ![o] = "CANCELLED"]
    /\ UNCHANGED <<ordersData, selectedOrder, isStatusDialogOpen, newStatus,
                   isDetailsDialogOpen, detailLoads, updating, lastUpdate,
                   convVars, parseVars, pageVars, bannerVars, routeVars,
                   userVars, authVars>>

\* The page with the list loaded and nothing open.
InitOrders ==
    /\ dbOrders \in [Orders -> LoadedStatuses]
    /\ ordersData = dbOrders
    /\ selectedOrder = NoOrder
    /\ isStatusDialogOpen = FALSE
    /\ newStatus = ""
    /\ isDetailsDialogOpen = FALSE
    /\ detailLoads = {}
    /\ updating = NoUpdate
    /\ lastUpdate = ""
    /\ DateIdle /\ BannerIdle /\ RouteIdle /\ UserIdle /\ AuthIdle

NextOrders ==
    \/ \E o \in Orders : handleEditStatus(o)
    \/ \E status \in PickedOptions : SetNewStatus(status)
    \/ handleUpdateStatus
    \/ UpdateResolves
    \/ UpdateRejects
    \/ handleCloseStatusDialog
    \/ DismissStatusDialog
    \/ \E o \in Orders : handleOpenDetails(o)
    \/ \E o \in Orders : DetailsLoaded(o)
    \/ \E o \in Orders : DetailsFail(o)
    \/ handleCloseDetails
    \/ DismissDetailsDialog
    \/ RefetchOrders
    \/ \E o \in Orders : CustomerCancels(o)

SpecOrders == InitOrders /\ [][NextOrders]_vars

\* C28: every updateOrderStatus request asks for a status other than
\* CANCELLED and targets an order that is not CANCELLED in the loaded data,
\* however the status editor, the details dialog and the refreshes of the
\* list interleave.
C28_NeverCancelsNorTouchesCancelled ==
    /\ updating # NoUpdate => updating.status # "CANCELLED"
    /\ lastUpdate # "CANCELLED"

\* A request is in flight that asks for one of the offered statuses, while
\* another order of the list is loaded as CANCELLED.
C28_Witness ==
    /\ updating # NoUpdate
    /\ updating.status \in statusOptions
    /\ lastUpdate \in Statuses \ {"CANCELLED"}
    /\ \E o \in Orders : o # updating.orderId /\ ordersData[o] = "CANCELLED"

====
